---- MODULE Spec2Model ----
(***************************************************************************)
(* Model of oak-query: the SQL statement assemblers ConditionBuilder       *)
(* (src/src/condition.rs), InsertBuilder (src/src/insert.rs) and           *)
(* UpdateBuilder (src/src/update.rs) over the shared value binder          *)
(* push_sqlvalue / push_jsonvalue (src/src/general.rs).                    *)
(*                                                                         *)
(* A sqlx QueryBuilder is the record [sql, args]: sql is the statement     *)
(* text as the sequence of the fragments pushed so far (a format! string   *)
(* is split at its arguments, an empty fragment adds nothing), args is     *)
(* the ordered list of bound values.  push_bind appends the value and      *)
(* writes the placeholder "$k", k being the new length of args.            *)
(***************************************************************************)
EXTENDS Integers, Sequences, FiniteSets, TLC

(***************************************************************************)
(* Bounds of the model.                                                    *)
(***************************************************************************)
\* longest predicate list given to ConditionBuilder
MaxConds == 3
\* longest Array value under an IN comparator
MaxArrayLen == 2
\* most columns of an InsertBuilder (rows have 0..MaxCols entries)
MaxCols == 2
\* most rows of an InsertBuilder
MaxRows == 3
\* width of the integers standing for i64 / u64
IntBits == 6
\* the builders that run side by side
NumBuilders == 2
\* most calls of build on one UpdateBuilder
MaxCalls == 2

(***************************************************************************)
(* Option<T>: None is the empty sequence, Some(x) the one-element one.     *)
(***************************************************************************)
None == <<>>
Some(x) == <<x>>
is_some(o) == Len(o) = 1
unwrap(o) == o[1]

(***************************************************************************)
(* serde_json::Value and SqlValue.  One record shape for every variant:    *)
(* tag names the variant, s holds text (or the Number representation       *)
(* PosInt / NegInt / Float), n the number, items the array elements.       *)
(***************************************************************************)
MkValue(tag, s, n, items) == [tag |-> tag, s |-> s, n |-> n, items |-> items]
Null == MkValue("Null", "", 0, <<>>)
Bool(b) == MkValue("Bool", "", IF b THEN 1 ELSE 0, <<>>)
PosInt(n) == MkValue("Number", "PosInt", n, <<>>)
NegInt(n) == MkValue("Number", "NegInt", n, <<>>)
Float(n) == MkValue("Number", "Float", n, <<>>)
String(s) == MkValue("String", s, 0, <<>>)
Array(items) == MkValue("Array", "", 0, items)
Object(s) == MkValue("Object", s, 0, <<>>)
NaiveDate(s) == MkValue("NaiveDate", s, 0, <<>>)
NaiveDateTime(s) == MkValue("NaiveDateTime", s, 0, <<>>)

I64Max == 2 ^ (IntBits - 1) - 1
U64Max == 2 ^ IntBits - 1

\* serde_json::Number::is_f64 / is_i64 / is_u64 / as_i64 / as_f64
is_f64(v) == v.s = "Float"
is_i64(v) == v.s = "NegInt" \/ (v.s = "PosInt" /\ v.n <= I64Max)
is_u64(v) == v.s = "PosInt"
as_i64(v) == IF is_i64(v) THEN Some(v.n) ELSE None
as_f64(v) == Some(v.n)

(***************************************************************************)
(* A bound value: ty is the Rust type handed to push_bind, opt the Option  *)
(* it carries (None binds SQL NULL), s / n / items the payload.            *)
(***************************************************************************)
MkArg(ty, s, n, items) == [ty |-> ty, s |-> s, n |-> n, items |-> items]
ArgOpt(ty, o) == IF is_some(o) THEN MkArg(ty, "Some", unwrap(o), <<>>)
                               ELSE MkArg(ty, "None", 0, <<>>)

(***************************************************************************)
(* sqlx::QueryBuilder<Postgres>                                            *)
(***************************************************************************)
Placeholder(k) == "$" \o ToString(k)

QueryBuilder_new(init) ==
    [sql |-> IF init = "" THEN <<>> ELSE <<init>>, args |-> <<>>]

push(query, fragments) ==
    [query EXCEPT !.sql = @ \o SelectSeq(fragments, LAMBDA f : f # "")]

push_bind(query, arg) ==
    [sql |-> Append(query.sql, Placeholder(Len(query.args) + 1)),
     args |-> Append(query.args, arg)]

(***************************************************************************)
(* general.rs: the shared value binder                                     *)
(***************************************************************************)
\* push_jsonvalue with a Null that binds SQL NULL
push_jsonvalue_null_bound(value, query_builder) ==
    CASE value.tag = "Null" -> push_bind(query_builder, ArgOpt("Option<Value>", None))
      [] value.tag = "Bool" -> push_bind(query_builder, MkArg("bool", "", value.n, <<>>))
      [] value.tag = "Number" ->
            LET q1 == IF is_f64(value)
                      THEN push_bind(query_builder, ArgOpt("Option<f64>", as_f64(value)))
                      ELSE query_builder
            IN  IF is_i64(value) \/ is_u64(value)
                THEN push_bind(q1, ArgOpt("Option<i64>", as_i64(value)))
                ELSE q1
      [] value.tag = "String" -> push_bind(query_builder, MkArg("String", value.s, 0, <<>>))
      [] value.tag = "Array" -> push_bind(query_builder, MkArg("Vec<Value>", "", 0, value.items))
      [] value.tag = "Object" -> push_bind(query_builder, MkArg("Value", value.s, 0, <<>>))

push_jsonvalue(value, query_builder) ==
    CASE value.tag = "Null" -> query_builder
      [] value.tag = "Bool" -> push_bind(query_builder, MkArg("bool", "", value.n, <<>>))
      [] value.tag = "Number" ->
            LET q1 == IF is_f64(value)
                      THEN push_bind(query_builder, ArgOpt("Option<f64>", as_f64(value)))
                      ELSE query_builder
            IN  IF is_i64(value) \/ is_u64(value)
                THEN push_bind(q1, ArgOpt("Option<i64>", as_i64(value)))
                ELSE q1
      [] value.tag = "String" -> push_bind(query_builder, MkArg("String", value.s, 0, <<>>))
      [] value.tag = "Array" -> push_bind(query_builder, MkArg("Vec<Value>", "", 0, value.items))
      [] value.tag = "Object" -> push_bind(query_builder, MkArg("Value", value.s, 0, <<>>))

push_sqlvalue(value, query_builder) ==
    CASE value.tag = "NaiveDate" ->
            push_bind(query_builder, MkArg("NaiveDate", value.s, 0, <<>>))
      [] value.tag = "NaiveDateTime" ->
            push_bind(query_builder, MkArg("NaiveDateTime", value.s, 0, <<>>))
      [] OTHER -> push_jsonvalue(value, query_builder)

(***************************************************************************)
(* general.rs: the conversions of integers into SqlValue                   *)
(***************************************************************************)
\* serde_json Number::from(i64): a negative value is NegInt, another PosInt
Number_from_i64(n) == IF n < 0 THEN NegInt(n) ELSE PosInt(n)

\* the cast `value as i64` of a u64: the same bits read as two's complement
u64_as_i64(value) == IF value > I64Max THEN value - 2 ^ IntBits ELSE value

\* impl From<i64> for SqlValue
SqlValue_from_i64(value) == Number_from_i64(value)

\* impl From<u64> for SqlValue
SqlValue_from_u64(value) == Number_from_i64(u64_as_i64(value))

(***************************************************************************)
(* condition.rs: Condition and ConditionBuilder                            *)
(***************************************************************************)
Condition_new(chain_opr, column, eq_opr, value_l, value_r) ==
    [chain_opr |-> chain_opr, column |-> column, eq_opr |-> eq_opr,
     value_l |-> value_l, value_r |-> value_r]

\* BaseQuery::Sql(text) and BaseQuery::QueryBuilder(query_builder)
BaseQuery_Sql(base_sql) ==
    [kind |-> "Sql", base_sql |-> base_sql, query_builder |-> QueryBuilder_new("")]
BaseQuery_QueryBuilder(query_builder) ==
    [kind |-> "QueryBuilder", base_sql |-> "", query_builder |-> query_builder]

ConditionBuilder_new(base_query, conditions, middle, limit, offset, end) ==
    [base_query |-> base_query, conditions |-> conditions, middle |-> middle,
     limit |-> limit, offset |-> offset, end |-> end]

\* to_uppercase that leaves the spelling as it is
to_uppercase_identity(s) == s

\* str::to_uppercase on the comparators of the model
to_uppercase(s) ==
    CASE s = "between" -> "BETWEEN"
      [] s = "in" -> "IN"
      [] s = "In" -> "IN"
      [] s = "not like" -> "NOT LIKE"
      [] OTHER -> s

\* operator.contains("LIKE"), on an upper-cased comparator of the model
contains_LIKE(operator) == operator \in {"LIKE", "NOT LIKE", "ILIKE"}

\* push(format!("\n    {0} {1} {2} ", chain_opr, column, eq_opr))
push_chain_head(chain_opr, cond, query) ==
    push(query, <<"\n    ", chain_opr, " ", cond.column, " ", cond.eq_opr, " ">>)

\* push_where_head that lets a chain operator, when given, take the place of WHERE
push_where_head_chained(cond, query) ==
    IF is_some(cond.chain_opr)
    THEN push_chain_head(unwrap(cond.chain_opr), cond, query)
    ELSE push(push(query, <<"\nWHERE">>), <<"\n    ", cond.column, " ", cond.eq_opr, " ">>)

\* push("\nWHERE"); push(format!("\n    {0} {1} ", column, eq_opr))
push_where_head(cond, query) ==
    push(push(query, <<"\nWHERE">>), <<"\n    ", cond.column, " ", cond.eq_opr, " ">>)

\* push_tuple_items that writes the placeholders itself, numbered by element
RECURSIVE push_tuple_items_numbered(_, _, _)
push_tuple_items_numbered(item_list, index, query) ==
    IF index >= Len(item_list) THEN query
    ELSE LET q1 == push(query, <<Placeholder(index + 1)>>)
             q2 == IF index < Len(item_list) - 1 THEN push(q1, <<", ">>) ELSE q1
         IN  push_tuple_items_numbered(item_list, index + 1, q2)

RECURSIVE push_tuple_items(_, _, _)
push_tuple_items(item_list, index, query) ==
    IF index >= Len(item_list) THEN query
    ELSE LET q1 == push_jsonvalue(item_list[index + 1], query)
             q2 == IF index < Len(item_list) - 1 THEN push(q1, <<", ">>) ELSE q1
         IN  push_tuple_items(item_list, index + 1, q2)

push_as_sql_tuple(item_list, query) ==
    push(push_tuple_items(item_list, 0, push(query, <<"(">>)), <<")">>)

\* build_between that writes WHERE before it looks at value_r
build_between_where_first(index, cond, query) ==
    IF index = 0
    THEN IF is_some(cond.value_r)
         THEN push_sqlvalue(unwrap(cond.value_r),
                  push(push_sqlvalue(cond.value_l, push_where_head(cond, query)),
                       <<" AND ">>))
         ELSE push(query, <<"\nWHERE">>)
    ELSE IF is_some(cond.value_r) /\ is_some(cond.chain_opr)
         THEN push_sqlvalue(unwrap(cond.value_r),
                  push(push_sqlvalue(cond.value_l,
                           push_chain_head(unwrap(cond.chain_opr), cond, query)),
                       <<" AND ">>))
         ELSE query

\* the "BETWEEN" arm
build_between(index, cond, query) ==
    IF is_some(cond.value_r)
    THEN IF index = 0
         THEN push_sqlvalue(unwrap(cond.value_r),
                  push(push_sqlvalue(cond.value_l, push_where_head(cond, query)),
                       <<" AND ">>))
         ELSE IF is_some(cond.chain_opr)
              THEN push_sqlvalue(unwrap(cond.value_r),
                       push(push_sqlvalue(cond.value_l,
                                push_chain_head(unwrap(cond.chain_opr), cond, query)),
                            <<" AND ">>))
              ELSE query
    ELSE query

\* the "IN" arm
build_in(index, cond, query) ==
    IF index = 0
    THEN IF cond.value_l.tag = "Array"
         THEN push_as_sql_tuple(cond.value_l.items, push_where_head(cond, query))
         ELSE query
    ELSE IF is_some(cond.chain_opr)
         THEN IF cond.value_l.tag = "Array"
              THEN push_as_sql_tuple(cond.value_l.items,
                       push_chain_head(unwrap(cond.chain_opr), cond, query))
              ELSE query
         ELSE query

\* the arm of a comparator that contains "LIKE"
build_like(index, cond, query) ==
    IF index = 0
    THEN LET like_value == IF cond.value_l.tag = "String"
                           THEN "%" \o cond.value_l.s \o "%"
                           ELSE ""
         IN  push_sqlvalue(String(like_value), push_where_head(cond, query))
    ELSE IF is_some(cond.chain_opr)
         THEN push_sqlvalue(cond.value_l,
                  push_chain_head(unwrap(cond.chain_opr), cond, query))
         ELSE query

\* build_default that emits a later predicate without chain operator too
build_default_unchained(index, cond, query) ==
    IF index = 0
    THEN push_sqlvalue(cond.value_l, push_where_head(cond, query))
    ELSE push_sqlvalue(cond.value_l,
             push_chain_head(IF is_some(cond.chain_opr) THEN unwrap(cond.chain_opr) ELSE "",
                             cond, query))

\* the default arm
build_default(index, cond, query) ==
    IF index = 0
    THEN push_sqlvalue(cond.value_l, push_where_head(cond, query))
    ELSE IF is_some(cond.chain_opr)
         THEN push_sqlvalue(cond.value_l,
                  push_chain_head(unwrap(cond.chain_opr), cond, query))
         ELSE query

\* build_condition that takes every comparator ending in IN for the "IN" arm
build_condition_in_family(index, cond, query) ==
    LET operator == to_uppercase(cond.eq_opr)
    IN  IF operator = "BETWEEN" THEN build_between(index, cond, query)
        ELSE IF operator \in {"IN", "NOT IN"} THEN build_in(index, cond, query)
        ELSE IF contains_LIKE(operator) THEN build_like(index, cond, query)
        ELSE build_default(index, cond, query)

\* one iteration of the loop over the conditions: the match on the comparator
build_condition(index, cond, query) ==
    LET operator == to_uppercase(cond.eq_opr)
    IN  IF operator = "BETWEEN" THEN build_between(index, cond, query)
        ELSE IF operator = "IN" THEN build_in(index, cond, query)
        ELSE IF contains_LIKE(operator) THEN build_like(index, cond, query)
        ELSE build_default(index, cond, query)

\* build_base that starts a new statement whatever the base is
build_base_fresh(self) ==
    IF self.base_query.kind = "Sql"
    THEN QueryBuilder_new(self.base_query.base_sql)
    ELSE QueryBuilder_new("")

build_base(self) ==
    IF self.base_query.kind = "Sql"
    THEN QueryBuilder_new(self.base_query.base_sql)
    ELSE self.base_query.query_builder

\* build_middle without the line break before the text
build_middle_same_line(self, query) ==
    IF is_some(self.middle) THEN push(query, <<unwrap(self.middle)>>) ELSE query

build_middle(self, query) ==
    IF is_some(self.middle) THEN push(query, <<"\n", unwrap(self.middle)>>) ELSE query

build_limit(self, query) ==
    IF is_some(self.limit)
    THEN push_bind(push(query, <<"\nLIMIT ">>), MkArg("i64", "", unwrap(self.limit), <<>>))
    ELSE query

build_offset(self, query) ==
    IF is_some(self.offset)
    THEN push_bind(push(query, <<"\nOFFSET ">>), MkArg("i64", "", unwrap(self.offset), <<>>))
    ELSE query

build_end(self, query) ==
    IF is_some(self.end) THEN push(query, <<"\n", unwrap(self.end)>>) ELSE query

RECURSIVE build_conditions(_, _, _)
build_conditions(conditions, index, query) ==
    IF index >= Len(conditions) THEN query
    ELSE build_conditions(conditions, index + 1,
                          build_condition(index, conditions[index + 1], query))

\* ConditionBuilder::build as a function of the builder
ConditionBuilder_build(self) ==
    build_end(self,
        build_offset(self,
            build_limit(self,
                build_middle(self,
                    build_conditions(self.conditions, 0, build_base(self))))))

(***************************************************************************)
(* insert.rs: InsertBuilder                                                *)
(***************************************************************************)
InsertBuilder_new(table, columns, rows, last_part) ==
    [table |-> table, columns |-> columns, rows |-> rows, last_part |-> last_part]

\* as_i64().unwrap() panics on a Number that is_u64 and above i64::MAX
value_panics(value) ==
    /\ is_some(value)
    /\ unwrap(value).tag = "Number"
    /\ (is_i64(unwrap(value)) \/ is_u64(unwrap(value)))
    /\ ~is_some(as_i64(unwrap(value)))

\* insert_value that binds SQL NULL for a Null entry
insert_value_null_bound(value, query) ==
    IF ~is_some(value) THEN push(query, <<"default">>)
    ELSE LET v == unwrap(value)
         IN  CASE v.tag = "Null" -> push_bind(query, ArgOpt("Option<Value>", None))
               [] v.tag = "Bool" -> push_bind(query, MkArg("bool", "", v.n, <<>>))
               [] v.tag = "Number" ->
                     IF is_i64(v) \/ is_u64(v)
                     THEN push_bind(query, MkArg("i64", "", unwrap(as_i64(v)), <<>>))
                     ELSE push_bind(query, MkArg("f64", "", unwrap(as_f64(v)), <<>>))
               [] v.tag = "String" -> push_bind(query, MkArg("String", v.s, 0, <<>>))
               [] v.tag = "Array" -> push_bind(query, MkArg("Vec<Value>", "", 0, v.items))
               [] v.tag = "Object" -> push_bind(query, MkArg("Value", v.s, 0, <<>>))
               [] v.tag = "NaiveDate" -> push_bind(query, MkArg("NaiveDate", v.s, 0, <<>>))
               [] v.tag = "NaiveDateTime" ->
                     push_bind(query, MkArg("NaiveDateTime", v.s, 0, <<>>))

\* the match on one entry of a row
insert_value(value, query) ==
    IF ~is_some(value) THEN push(query, <<"default">>)
    ELSE LET v == unwrap(value)
         IN  CASE v.tag = "Null" -> push(query, <<"null">>)
               [] v.tag = "Bool" -> push_bind(query, MkArg("bool", "", v.n, <<>>))
               [] v.tag = "Number" ->
                     IF is_i64(v) \/ is_u64(v)
                     THEN push_bind(query, MkArg("i64", "", unwrap(as_i64(v)), <<>>))
                     ELSE push_bind(query, MkArg("f64", "", unwrap(as_f64(v)), <<>>))
               [] v.tag = "String" -> push_bind(query, MkArg("String", v.s, 0, <<>>))
               [] v.tag = "Array" -> push_bind(query, MkArg("Vec<Value>", "", 0, v.items))
               [] v.tag = "Object" -> push_bind(query, MkArg("Value", v.s, 0, <<>>))
               [] v.tag = "NaiveDate" -> push_bind(query, MkArg("NaiveDate", v.s, 0, <<>>))
               [] v.tag = "NaiveDateTime" ->
                     push_bind(query, MkArg("NaiveDateTime", v.s, 0, <<>>))

RECURSIVE insert_values(_, _, _)
insert_values(row, col_index, query) ==
    IF col_index >= Len(row) THEN query
    ELSE LET q1 == insert_value(row[col_index + 1], query)
             q2 == IF col_index < Len(row) - 1 THEN push(q1, <<", ">>) ELSE q1
         IN  insert_values(row, col_index + 1, q2)

\* insert_row without the comparison of the row length with the column count
insert_row_unchecked(self, row_index, row, query) ==
    LET q1 == insert_values(row, 0, push(query, <<"       (">>))
    IN  IF row_index < Len(self.rows) - 1
        THEN push(q1, <<"),\n">>)
        ELSE push(q1, <<")\n">>)

\* one iteration of the loop over the rows
insert_row(self, row_index, row, query) ==
    IF Len(self.columns) = Len(row)
    THEN LET q1 == insert_values(row, 0, push(query, <<"       (">>))
         IN  IF row_index < Len(self.rows) - 1
             THEN push(q1, <<"),\n">>)
             ELSE push(q1, <<")\n">>)
    ELSE query

RECURSIVE insert_columns(_, _, _)
insert_columns(columns, col_index, query) ==
    IF col_index >= Len(columns) THEN query
    ELSE insert_columns(columns, col_index + 1,
            IF col_index < Len(columns) - 1
            THEN push(query, <<columns[col_index + 1], ", ">>)
            ELSE push(query, <<columns[col_index + 1], ")\n">>))

\* "INSERT INTO <table>(", the column list and "VALUES\n"
insert_header(self, query) ==
    push(insert_columns(self.columns, 0, push(query, <<"INSERT INTO ", self.table, "(">>)),
         <<"VALUES\n">>)

insert_last_part(self, query) ==
    IF is_some(self.last_part) THEN push(query, <<unwrap(self.last_part), "\n">>) ELSE query

RECURSIVE insert_rows(_, _, _)
insert_rows(self, row_index, query) ==
    IF row_index >= Len(self.rows) THEN query
    ELSE insert_rows(self, row_index + 1,
                     insert_row(self, row_index, self.rows[row_index + 1], query))

\* InsertBuilder::build as a function of the builder
InsertBuilder_build(self) ==
    IF self.rows = <<>> THEN QueryBuilder_new("")
    ELSE insert_last_part(self,
             insert_rows(self, 0, insert_header(self, QueryBuilder_new(""))))

(***************************************************************************)
(* update.rs: UpdateBuilder                                                *)
(***************************************************************************)
\* enum UpdColumnType
Primitive(value) == [kind |-> "Primitive", value |-> value]
DateTime(s) == [kind |-> "DateTime", value |-> NaiveDateTime(s)]
Date(s) == [kind |-> "Date", value |-> NaiveDate(s)]

\* type Column = (&str, UpdColumnType)
Column(name, column_type) == <<name, column_type>>

UpdateBuilder_new(table, columns, conditions, end) ==
    [table |-> table, columns |-> columns, conditions |-> conditions, end |-> end]

\* the match on column.1: push_bind of the serde_json Value or of the chrono value
update_bind(column_type, query) ==
    CASE column_type.kind = "Primitive" ->
            push_bind(query, MkArg("Value", "", 0, <<column_type.value>>))
      [] column_type.kind = "DateTime" ->
            push_bind(query, MkArg("NaiveDateTime", column_type.value.s, 0, <<>>))
      [] column_type.kind = "Date" ->
            push_bind(query, MkArg("NaiveDate", column_type.value.s, 0, <<>>))

\* update_column that binds a Primitive through the shared value binder
update_column_via_binder(self, index, column, query) ==
    LET q1 == IF index = 0
              THEN push(query, <<"\n    SET ", column[1], " = ">>)
              ELSE push(query, <<"\n    ", column[1], " = ">>)
        q2 == push_sqlvalue(column[2].value, q1)
    IN  IF index < Len(self.columns) - 1 THEN push(q2, <<",">>) ELSE q2

\* one iteration of the loop over the columns
update_column(self, index, column, query) ==
    LET q1 == IF index = 0
              THEN push(query, <<"\n    SET ", column[1], " = ">>)
              ELSE push(query, <<"\n    ", column[1], " = ">>)
        q2 == update_bind(column[2], q1)
    IN  IF index < Len(self.columns) - 1 THEN push(q2, <<",">>) ELSE q2

RECURSIVE update_columns(_, _, _)
update_columns(self, index, query) ==
    IF index >= Len(self.columns) THEN query
    ELSE update_columns(self, index + 1,
                        update_column(self, index, self.columns[index + 1], query))

\* push(format!("UPDATE {}", table))
update_head(self, query) == push(query, <<"UPDATE ", self.table>>)

\* UpdateBuilder::build as a function of the builder
UpdateBuilder_build(self) ==
    IF self.columns # <<>>
    THEN update_columns(self, 0, update_head(self, QueryBuilder_new("")))
    ELSE QueryBuilder_new("")

\* the ConditionBuilder that build_all makes over the statement build returned
build_all_conditions(self, query) ==
    ConditionBuilder_new(BaseQuery_QueryBuilder(query), self.conditions,
                         None, None, None, self.end)

\* UpdateBuilder::build_all as a function of the builder
UpdateBuilder_build_all(self) ==
    ConditionBuilder_build(build_all_conditions(self, UpdateBuilder_build(self)))

(***************************************************************************)
(* Inputs of the insert model                                              *)
(***************************************************************************)
RowValues == {None, Some(String("a"))}
ColumnLists == {[i \in 1..n |-> "c" \o ToString(i)] : n \in 0..MaxCols}

\* the rows for a column list: every row of its length, one row that is an
\* entry longer and, under a non-empty column list, one that is an entry shorter
RowsFor(columns) ==
    [1..Len(columns) -> RowValues]
    \cup {[i \in 1..(Len(columns) + 1) |-> Some(String("a"))]}
    \cup (IF columns = <<>> THEN {}
          ELSE {[i \in 1..(Len(columns) - 1) |-> Some(String("a"))]})

RowLists(columns) == UNION {[1..n -> RowsFor(columns)] : n \in 0..MaxRows}

\* one or two rows of the column count over every kind of entry: absent, Null,
\* two texts, and a Number above i64::MAX
SlotValues ==
    {None, Some(Null), Some(String("a")), Some(String("b")), Some(PosInt(U64Max))}
ValueRowLists(columns) == UNION {[1..n -> [1..Len(columns) -> SlotValues]] : n \in 1..2}

\* the builders over a table
InsertBuilders(table) ==
    {InsertBuilder_new(table, ib[1], ib[2], lp) :
        ib \in UNION {{<<cols, rows>> : rows \in RowLists(cols) \cup ValueRowLists(cols)} :
                        cols \in ColumnLists},
        lp \in {None, Some("RETURNING id")}}

(***************************************************************************)
(* Inputs of the update model                                              *)
(***************************************************************************)
UpdColumnTypes ==
    {Primitive(PosInt(5)), Primitive(Null), Primitive(String("x")),
     DateTime("2023-01-01T00:00"), Date("2023-01-01")}

UpdColumnLists ==
    UNION {{[i \in 1..n |-> Column("c" \o ToString(i), f[i])] : f \in [1..n -> UpdColumnTypes]} :
           n \in 0..MaxCols}

\* no predicate, one, two chained ones, a skipped lead before a chained one, a tuple
UpdConditionLists ==
    {<<>>,
     <<Condition_new(None, "id", "=", PosInt(5), None)>>,
     <<Condition_new(None, "id", "=", PosInt(5), None),
       Condition_new(Some("AND"), "col", "LIKE", String("x"), None)>>,
     <<Condition_new(None, "id", "IN", PosInt(5), None),
       Condition_new(Some("OR"), "id", "=", PosInt(5), None)>>,
     <<Condition_new(None, "id", "IN", Array(<<String("x"), String("x")>>), None)>>}

UpdateBuilders ==
    {UpdateBuilder_new("t", cols, conds, e) :
        cols \in UpdColumnLists, conds \in UpdConditionLists,
        e \in {None, Some("RETURNING id")}}

(***************************************************************************)
(* Inputs of the condition model                                           *)
(***************************************************************************)
ChainOprs == {None, Some(""), Some("AND")}
ArrayItems == {Null, String("x")}
ArraySet == UNION {[1..n -> ArrayItems] : n \in 0..MaxArrayLen}

\* <<comparator, value_l, value_r>> of the predicates
CoreForms ==
    {<<"=", PosInt(5), None>>,
     <<"BETWEEN", PosInt(5), None>>,
     <<"LIKE", String("x"), None>>}

AllForms ==
    CoreForms
    \cup {<<"=", Null, None>>, <<"=", String("x"), None>>,
          <<"BETWEEN", PosInt(5), Some(PosInt(24))>>,
          <<"BETWEEN", Null, Some(PosInt(24))>>,
          <<"NOT BETWEEN", PosInt(5), Some(PosInt(24))>>,
          <<"IN", PosInt(5), None>>,
          <<"LIKE", PosInt(5), None>>}
    \cup {<<"IN", Array(a), None>> : a \in ArraySet}
    \cup {<<"=", PosInt(5), Some(PosInt(24))>>,
          <<">=", String("x"), Some(String("x"))>>,
          <<"NOT IN", Array(<<>>), None>>,
          <<"NOT IN", Array(<<String("x"), String("x")>>), None>>,
          <<"NOT IN", PosInt(5), None>>}
    \cup {<<"between", PosInt(5), Some(PosInt(24))>>,
          <<"between", PosInt(5), None>>,
          <<"In", Array(<<String("x"), String("x")>>), None>>,
          <<"In", PosInt(5), None>>,
          <<"not like", String("x"), None>>}

ConditionsOf(chains, forms) ==
    {Condition_new(ch, "col", f[1], f[2], f[3]) : ch \in chains, f \in forms}

\* every list of at most MaxConds predicates of the core forms, each without
\* chain operator or chained by AND
CoreLists ==
    UNION {[1..n -> ConditionsOf({None, Some("AND")}, CoreForms)] : n \in 0..MaxConds}

\* a predicate of any form: alone, after a leading predicate (one that is
\* emitted, one that is skipped) and before a chained one
Leading == {Condition_new(None, "id", "=", PosInt(5), None),
            Condition_new(None, "id", "IN", PosInt(5), None)}
Chained == {Condition_new(Some("OR"), "id", "=", PosInt(5), None)}
FormLists ==
    {<<c>> : c \in ConditionsOf(ChainOprs, AllForms)}
    \cup {<<l, c>> : l \in Leading, c \in ConditionsOf(ChainOprs, AllForms)}
    \cup {<<c, t>> : c \in ConditionsOf(ChainOprs, AllForms), t \in Chained}

ConditionLists == CoreLists \cup FormLists

ConditionBuilders ==
    {ConditionBuilder_new(BaseQuery_Sql("SELECT * FROM t"), cs, m, l, o, e) :
        cs \in ConditionLists,
        m \in {None, Some("ORDER BY id")},
        l \in {None, Some(10)},
        o \in {None, Some(0)},
        e \in {None, Some("FOR UPDATE")}}

(***************************************************************************)
(* The state: the builder being consumed (self), the statement under       *)
(* construction (query), the loop index and the position in build (pc).    *)
(***************************************************************************)
VARIABLES self, query, index, pc

vars == <<self, query, index, pc>>

(***************************************************************************)
(* ConditionBuilder::build, one step at a time                             *)
(***************************************************************************)
Init ==
    /\ self \in ConditionBuilders
    /\ query = QueryBuilder_new("")
    /\ index = 0
    /\ pc = "build"

\* the match on base_query
BuildBase ==
    /\ pc = "build"
    /\ query' = build_base(self)
    /\ index' = 0
    /\ pc' = "conditions"
    /\ UNCHANGED self

\* one iteration of the loop over the conditions
BuildCondition ==
    /\ pc = "conditions"
    /\ index < Len(self.conditions)
    /\ query' = build_condition(index, self.conditions[index + 1], query)
    /\ index' = index + 1
    /\ UNCHANGED <<self, pc>>

\* the loop is over: the middle text
BuildMiddle ==
    /\ pc = "conditions"
    /\ index >= Len(self.conditions)
    /\ query' = build_middle(self, query)
    /\ pc' = "limit"
    /\ UNCHANGED <<self, index>>

BuildLimit ==
    /\ pc = "limit"
    /\ query' = build_limit(self, query)
    /\ pc' = "offset"
    /\ UNCHANGED <<self, index>>

BuildOffset ==
    /\ pc = "offset"
    /\ query' = build_offset(self, query)
    /\ pc' = "end"
    /\ UNCHANGED <<self, index>>

BuildEnd ==
    /\ pc = "end"
    /\ query' = build_end(self, query)
    /\ pc' = "done"
    /\ UNCHANGED <<self, index>>

Next ==
    \/ BuildBase
    \/ BuildCondition
    \/ BuildMiddle
    \/ BuildLimit
    \/ BuildOffset
    \/ BuildEnd

Spec == Init /\ [][Next]_vars

(***************************************************************************)
(* Vocabulary of the properties                                            *)
(***************************************************************************)
IsPrefix(a, b) == Len(a) <= Len(b) /\ SubSeq(b, 1, Len(a)) = a

\* the placeholders of a statement text, left to right
Placeholders(sql) ==
    SelectSeq(sql, LAMBDA t : t \in {Placeholder(k) : k \in 1..Len(sql)})

\* the text appended to the base text
Appended(q) == SubSeq(q.sql, Len(build_base(self).sql) + 1, Len(q.sql))

\* the comparator rules that drop a predicate: BETWEEN without right_value,
\* IN with a left_value that is no Array
SkippedByComparator(cond) ==
    \/ to_uppercase(cond.eq_opr) = "BETWEEN" /\ ~is_some(cond.value_r)
    \/ to_uppercase(cond.eq_opr) = "IN" /\ cond.value_l.tag # "Array"

\* the statement after the first i predicates of the list
AfterConditions(i) ==
    build_conditions(SubSeq(self.conditions, 1, i), 0, build_base(self))

RemoveAt(seq, k) == SubSeq(seq, 1, k - 1) \o SubSeq(seq, k + 1, Len(seq))

Done == pc = "done"

(***************************************************************************)
(* C1: in every output over a raw-SQL base the placeholders read left to   *)
(* right are $1, $2, ..., $n without gap or repeat, and n is the number of *)
(* bound values, so that the k-th placeholder stands for the k-th value    *)
(* appended.                                                               *)
(***************************************************************************)
C1_PlaceholdersNumberArgs ==
    Done =>
        LET ph == Placeholders(query.sql)
        IN  /\ Len(ph) = Len(query.args)
            /\ \A k \in 1..Len(ph) : ph[k] = Placeholder(k)

\* an output with predicates of several placeholders, a tuple, LIMIT and OFFSET
C1_Witness ==
    /\ Done
    /\ Len(query.args) >= 4
    /\ is_some(self.limit) /\ is_some(self.offset)
    /\ \E i \in 1..Len(self.conditions) :
          /\ self.conditions[i].eq_opr = "IN"
          /\ i > 1
          /\ Len(AfterConditions(i).args) >= Len(AfterConditions(i - 1).args) + 2

(***************************************************************************)
(* C2: a list of one predicate that its comparator rule does not drop      *)
(* gives the same output for every chain_opr (None, Some(""), Some("AND")):*)
(* "\nWHERE", then "\n    <col> <op> " and the value binding; the chain    *)
(* operator is not in the text.                                            *)
(***************************************************************************)
C2_LeadingChainIgnored ==
    (Done /\ Len(self.conditions) = 1 /\ ~SkippedByComparator(self.conditions[1])) =>
        LET cond == self.conditions[1]
            head == <<"\nWHERE", "\n    ", cond.column, " ", cond.eq_opr, " ">>
        IN  /\ \A ch \in ChainOprs :
                  ConditionBuilder_build(
                      [self EXCEPT !.conditions = <<[cond EXCEPT !.chain_opr = ch]>>])
                  = query
            /\ IsPrefix(head, Appended(query))
            /\ \A k \in 1..Len(query.sql) : query.sql[k] # "AND"

C2_Witness ==
    /\ Done
    /\ Len(self.conditions) = 1
    /\ ~SkippedByComparator(self.conditions[1])
    /\ self.conditions[1].chain_opr = Some("AND")
    /\ Len(query.args) >= 1

(***************************************************************************)
(* C3: a predicate at a position k > 0 without chain operator adds         *)
(* nothing: text and bound values are those of the list without it.        *)
(***************************************************************************)
C3_UnchainedDropped ==
    Done =>
        \A k \in 2..Len(self.conditions) :
            ~is_some(self.conditions[k].chain_opr) =>
                ConditionBuilder_build(
                    [self EXCEPT !.conditions = RemoveAt(self.conditions, k)])
                = query

\* an unchained predicate between two emitted ones
C3_Witness ==
    /\ Done
    /\ Len(self.conditions) = 3
    /\ ~is_some(self.conditions[2].chain_opr)
    /\ is_some(self.conditions[3].chain_opr)
    /\ ~SkippedByComparator(self.conditions[1])
    /\ ~SkippedByComparator(self.conditions[3])
    /\ Len(query.args) = 2

(***************************************************************************)
(* The state right after the loop has processed the predicate at list      *)
(* position index - 1: Built is that predicate, Before the statement it    *)
(* was appended to.                                                        *)
(***************************************************************************)
JustBuilt == pc = "conditions" /\ index >= 1
Built == self.conditions[index]
Before == AfterConditions(index - 1)

\* the predicate passes the position rule: it leads or has a chain operator
Positioned(i, cond) == i = 1 \/ is_some(cond.chain_opr)

\* the head of the clause of the predicate at list position i - 1
ClauseHead(i, cond) ==
    IF i = 1
    THEN <<"\nWHERE", "\n    ", cond.column, " ", cond.eq_opr, " ">>
    ELSE SelectSeq(<<"\n    ", unwrap(cond.chain_opr), " ", cond.column, " ",
                     cond.eq_opr, " ">>, LAMBDA f : f # "")

\* the value the binder hands to push_bind for a non-Null value
BoundOf(v) == push_sqlvalue(v, QueryBuilder_new("")).args[1]

\* the comparator contains "BETWEEN"
ContainsBETWEEN(eq_opr) == to_uppercase(eq_opr) \in {"BETWEEN", "NOT BETWEEN"}

\* m placeholders from ordinal n + 1 on, joined by ", "
JoinedPlaceholders(n, m) ==
    IF m = 0 THEN <<>>
    ELSE [j \in 1..(2 * m - 1) |->
            IF j % 2 = 1 THEN Placeholder(n + (j + 1) \div 2) ELSE ", "]

(***************************************************************************)
(* C4: an emitted predicate whose comparator contains "BETWEEN" (BETWEEN   *)
(* and NOT BETWEEN alike), with right_value present and both values        *)
(* non-Null, is the clause <col> <comparator> $k AND $k+1, left_value      *)
(* bound to $k and right_value to $k+1.                                    *)
(***************************************************************************)
C4_BetweenFamilyClause ==
    (/\ JustBuilt
     /\ Positioned(index, Built)
     /\ ContainsBETWEEN(Built.eq_opr)
     /\ is_some(Built.value_r)
     /\ Built.value_l # Null
     /\ unwrap(Built.value_r) # Null) =>
        LET n == Len(Before.args)
        IN  /\ query.sql = Before.sql \o ClauseHead(index, Built)
                           \o <<Placeholder(n + 1), " AND ", Placeholder(n + 2)>>
            /\ query.args = Before.args
                            \o <<BoundOf(Built.value_l), BoundOf(unwrap(Built.value_r))>>

(***************************************************************************)
(* C5: an emitted predicate whose comparator is IN and whose left_value is *)
(* an Array of m elements is the clause <col> IN ( m placeholders joined   *)
(* by ", " ): one placeholder and one bound value per element, Null        *)
(* elements included.                                                      *)
(***************************************************************************)
C5_InTuplePerElement ==
    (/\ JustBuilt
     /\ Positioned(index, Built)
     /\ to_uppercase(Built.eq_opr) = "IN"
     /\ Built.value_l.tag = "Array") =>
        LET n == Len(Before.args)
            m == Len(Built.value_l.items)
        IN  /\ query.sql = Before.sql \o ClauseHead(index, Built)
                           \o <<"(">> \o JoinedPlaceholders(n, m) \o <<")">>
            /\ Len(query.args) = n + m

(***************************************************************************)
(* C6: an emitted predicate whose comparator contains "LIKE" and whose     *)
(* left_value is the text t binds "%t%", at the leading position and at a  *)
(* chained one; a predicate of the default comparators binds its           *)
(* left_value as it is.                                                    *)
(***************************************************************************)
C6_LikeWrapped ==
    (JustBuilt /\ Positioned(index, Built)) =>
        /\ (contains_LIKE(to_uppercase(Built.eq_opr)) /\ Built.value_l.tag = "String") =>
              query.args = Append(Before.args,
                                  MkArg("String", "%" \o Built.value_l.s \o "%", 0, <<>>))
        /\ (/\ ~contains_LIKE(to_uppercase(Built.eq_opr))
            /\ to_uppercase(Built.eq_opr) \notin {"BETWEEN", "IN"}
            /\ Built.value_l # Null) =>
              query.args = Append(Before.args, BoundOf(Built.value_l))

(***************************************************************************)
(* C7 as stated: when the predicate at position 0 is skipped it adds no    *)
(* text and no value and the output has no WHERE, while every later        *)
(* predicate with a chain operator is emitted as "\n    <chain> <col> <op> *)
(* ..."; WHERE is in the output iff the predicate at position 0 is         *)
(* emitted.                                                                *)
(***************************************************************************)
HasWhere(sql) == \E k \in 1..Len(sql) : sql[k] = "\nWHERE"

LaterEmitted(k) ==
    IsPrefix(AfterConditions(k - 1).sql \o ClauseHead(k, self.conditions[k]),
             AfterConditions(k).sql)

C7_SkippedLeadOriginal ==
    Done =>
        /\ (Len(self.conditions) >= 1 /\ SkippedByComparator(self.conditions[1])) =>
              /\ AfterConditions(1) = build_base(self)
              /\ ~HasWhere(query.sql)
              /\ \A k \in 2..Len(self.conditions) :
                    is_some(self.conditions[k].chain_opr) => LaterEmitted(k)
        /\ HasWhere(query.sql)
              <=> (Len(self.conditions) >= 1 /\ ~SkippedByComparator(self.conditions[1]))

(***************************************************************************)
(* C7 amended: when the predicate at position 0 is skipped it adds no text *)
(* and no value and the output has no WHERE, while every later predicate   *)
(* that has a chain operator and is not itself skipped by its comparator   *)
(* rule is emitted as "\n    <chain> <col> <op> ..."; WHERE is in the      *)
(* output iff the predicate at position 0 is emitted.                      *)
(***************************************************************************)
C7_SkippedLead ==
    Done =>
        /\ (Len(self.conditions) >= 1 /\ SkippedByComparator(self.conditions[1])) =>
              /\ AfterConditions(1) = build_base(self)
              /\ ~HasWhere(query.sql)
              /\ \A k \in 2..Len(self.conditions) :
                    (/\ is_some(self.conditions[k].chain_opr)
                     /\ ~SkippedByComparator(self.conditions[k])) => LaterEmitted(k)
        /\ HasWhere(query.sql)
              <=> (Len(self.conditions) >= 1 /\ ~SkippedByComparator(self.conditions[1]))

\* a skipped lead followed by an emitted chained predicate
C7_Witness ==
    /\ Done
    /\ Len(self.conditions) >= 2
    /\ SkippedByComparator(self.conditions[1])
    /\ is_some(self.conditions[2].chain_opr)
    /\ ~SkippedByComparator(self.conditions[2])
    /\ Len(query.args) >= 1
    /\ ~HasWhere(query.sql)

(***************************************************************************)
(* C8: the output is the predicate clauses, then the middle text, LIMIT,   *)
(* OFFSET and the end text in this order, each present exactly when given  *)
(* and each starting a new line; the LIMIT ordinal follows the last        *)
(* predicate placeholder and the OFFSET ordinal follows LIMIT's, or the    *)
(* last predicate's without LIMIT.                                         *)
(***************************************************************************)
C8_TrailerOrder ==
    Done =>
        LET p == AfterConditions(Len(self.conditions))
            n == Len(p.args)
            nl == IF is_some(self.limit) THEN n + 1 ELSE n
            m == IF is_some(self.middle) THEN <<"\n", unwrap(self.middle)>> ELSE <<>>
            l == IF is_some(self.limit) THEN <<"\nLIMIT ", Placeholder(n + 1)>> ELSE <<>>
            o == IF is_some(self.offset) THEN <<"\nOFFSET ", Placeholder(nl + 1)>> ELSE <<>>
            e == IF is_some(self.end) THEN <<"\n", unwrap(self.end)>> ELSE <<>>
            la == IF is_some(self.limit)
                  THEN <<MkArg("i64", "", unwrap(self.limit), <<>>)>> ELSE <<>>
            oa == IF is_some(self.offset)
                  THEN <<MkArg("i64", "", unwrap(self.offset), <<>>)>> ELSE <<>>
        IN  /\ query.sql = p.sql \o m \o l \o o \o e
            /\ query.args = p.args \o la \o oa

C8_Witness ==
    /\ Done
    /\ is_some(self.middle) /\ is_some(self.limit)
    /\ is_some(self.offset) /\ is_some(self.end)
    /\ Len(query.args) >= 4

(***************************************************************************)
(* C9: the value binder appends nothing for Null and exactly one           *)
(* placeholder and one bound value for every other variant, and leaves     *)
(* what the buffer holds as it is.                                         *)
(***************************************************************************)
JsonValues ==
    {Null, Bool(TRUE), Bool(FALSE), PosInt(5), PosInt(U64Max), NegInt(-3), Float(2),
     String("x"), Array(<<>>), Array(<<Null, String("x")>>), Object("o")}
SqlValues == JsonValues \cup {NaiveDate("2023-01-01"), NaiveDateTime("2023-01-01T00:00")}

BindsOne(q, q2) ==
    /\ q2.sql = Append(q.sql, Placeholder(Len(q.args) + 1))
    /\ Len(q2.args) = Len(q.args) + 1
    /\ IsPrefix(q.args, q2.args)

C9_BinderAppends ==
    /\ \A v \in SqlValues :
          IF v = Null THEN push_sqlvalue(v, query) = query
          ELSE BindsOne(query, push_sqlvalue(v, query))
    /\ \A v \in JsonValues :
          IF v = Null THEN push_jsonvalue(v, query) = query
          ELSE BindsOne(query, push_jsonvalue(v, query))
    /\ (/\ JustBuilt /\ Positioned(index, Built)
        /\ ~contains_LIKE(to_uppercase(Built.eq_opr))
        /\ to_uppercase(Built.eq_opr) \notin {"BETWEEN", "IN"}) =>
          IF Built.value_l = Null
          THEN query = push(Before, ClauseHead(index, Built))
          ELSE BindsOne(push(Before, ClauseHead(index, Built)), query)

\* the binder has bound a value and then passed over a Null
C9_Witness ==
    /\ JustBuilt
    /\ index >= 2
    /\ Positioned(index, Built)
    /\ Built.eq_opr = "="
    /\ Built.value_l = Null
    /\ Len(query.args) >= 1

(***************************************************************************)
(* C18: an emitted predicate whose comparator is neither BETWEEN nor IN    *)
(* and does not contain LIKE is "<col> <comparator> " and the binding of   *)
(* left_value alone: a right_value adds no text and no bound value, and    *)
(* NOT IN with an Array left_value binds the array as one placeholder,     *)
(* without a parenthesised list.                                           *)
(***************************************************************************)
DefaultComparator(eq_opr) ==
    /\ to_uppercase(eq_opr) \notin {"BETWEEN", "IN"}
    /\ to_uppercase(eq_opr) \notin {"LIKE", "NOT LIKE", "ILIKE"}

\* the bound value of a left_value, by variant
BoundLeft(v) ==
    CASE v.tag = "Number" -> MkArg("Option<i64>", "Some", v.n, <<>>)
      [] v.tag = "String" -> MkArg("String", v.s, 0, <<>>)
      [] v.tag = "Array" -> MkArg("Vec<Value>", "", 0, v.items)

OtherSpellings == {"between", "In", "not like"}
UpperSpelling(eq_opr) ==
    CASE eq_opr = "between" -> "BETWEEN"
      [] eq_opr = "In" -> "IN"
      [] eq_opr = "not like" -> "NOT LIKE"

C19_CaseInsensitiveDispatch ==
    (JustBuilt /\ Built.eq_opr \in OtherSpellings) =>
        LET upper == UpperSpelling(Built.eq_opr)
            as_upper == build_condition(index - 1, [Built EXCEPT !.eq_opr = upper], Before)
        IN  /\ query.args = as_upper.args
            /\ Len(query.sql) = Len(as_upper.sql)
            /\ \A k \in 1..Len(query.sql) :
                  query.sql[k] = IF k > Len(Before.sql) /\ as_upper.sql[k] = upper
                                 THEN Built.eq_opr
                                 ELSE as_upper.sql[k]
            /\ \A k \in 1..Len(query.sql) : query.sql[k] # upper

\* a lower-case between that has bound both of its values
C19_Witness ==
    /\ JustBuilt
    /\ Built.eq_opr = "between"
    /\ Len(query.args) = Len(Before.args) + 2
    /\ \E k \in 1..Len(query.sql) : query.sql[k] = "between"

(***************************************************************************)
(* InsertBuilder::build, one step at a time                                *)
(***************************************************************************)
InitInsert ==
    /\ self \in InsertBuilders("t")
    /\ query = QueryBuilder_new("")
    /\ index = 0
    /\ pc = "build"

\* InsertReturnEmpty that skips the rows only and still appends last_part
InsertReturnEmpty_last_part ==
    /\ pc = "build"
    /\ self.rows = <<>>
    /\ query' = insert_last_part(self, QueryBuilder_new(""))
    /\ pc' = "done"
    /\ UNCHANGED <<self, index>>

\* the early return on an empty row matrix
InsertReturnEmpty ==
    /\ pc = "build"
    /\ self.rows = <<>>
    /\ query' = QueryBuilder_new("")
    /\ pc' = "done"
    /\ UNCHANGED <<self, index>>

InsertHeader ==
    /\ pc = "build"
    /\ self.rows # <<>>
    /\ query' = insert_header(self, QueryBuilder_new(""))
    /\ index' = 0
    /\ pc' = "rows"
    /\ UNCHANGED self

InsertRow ==
    /\ pc = "rows"
    /\ index < Len(self.rows)
    /\ LET row == self.rows[index + 1]
       IN  IF Len(self.columns) = Len(row) /\ \E i \in 1..Len(row) : value_panics(row[i])
           THEN pc' = "panic" /\ UNCHANGED <<query, index>>
           ELSE /\ query' = insert_row(self, index, row, query)
                /\ index' = index + 1
                /\ pc' = pc
    /\ UNCHANGED self

InsertLastPart ==
    /\ pc = "rows"
    /\ index >= Len(self.rows)
    /\ query' = insert_last_part(self, query)
    /\ pc' = "done"
    /\ UNCHANGED <<self, index>>

NextInsert ==
    \/ InsertReturnEmpty
    \/ InsertHeader
    \/ InsertRow
    \/ InsertLastPart

SpecInsert == InitInsert /\ [][NextInsert]_vars

(***************************************************************************)
(* C10: when the row matrix has a well-formed row, the last row tuple in   *)
(* the output ends with ")\n" and every earlier one with "),\n", whichever *)
(* rows were dropped for their length, trailing rows included.             *)
(***************************************************************************)
WellFormed(row) == Len(row) = Len(self.columns)

\* the text after the header
RowsText(sql) == SubSeq(sql, Len(insert_header(self, QueryBuilder_new("")).sql) + 1, Len(sql))

\* the ends of the row tuples, in order
TupleEnds(sql) == SelectSeq(RowsText(sql), LAMBDA t : t \in {"),\n", ")\n"})

C10_LastTupleNoComma ==
    (Done /\ \E i \in 1..Len(self.rows) : WellFormed(self.rows[i])) =>
        LET ends == TupleEnds(query.sql)
        IN  /\ Len(ends) >= 1
            /\ ends[Len(ends)] = ")\n"
            /\ \A k \in 1..(Len(ends) - 1) : ends[k] = "),\n"

(***************************************************************************)
(* The entries of the well-formed rows in row-major order, and the tokens  *)
(* of the output that stand for a slot.                                    *)
(***************************************************************************)
RECURSIVE Flatten(_)
Flatten(rows) == IF rows = <<>> THEN <<>> ELSE Head(rows) \o Flatten(Tail(rows))

WellFormedRows == SelectSeq(self.rows, WellFormed)
Entries == Flatten(WellFormedRows)

\* the present entries that carry a value to bind
Bindable(e) == is_some(e) /\ unwrap(e) # Null
BoundEntries == SelectSeq(Entries, Bindable)

\* the entries that are absent or carry a value to bind
IsSlotEntry(e) == ~is_some(e) \/ Bindable(e)

IsPlaceholder(t) == \E k \in 1..(MaxCols + 1) * (MaxRows + 1) : t = Placeholder(k)

\* the ordinal of the entry at position j of Entries among the bound ones
RECURSIVE OrdinalOf(_)
OrdinalOf(j) ==
    IF j = 0 THEN 0
    ELSE OrdinalOf(j - 1) + (IF Bindable(Entries[j]) THEN 1 ELSE 0)

\* the value insert hands to push_bind for a present, non-Null entry
InsertBound(e) == insert_value(e, QueryBuilder_new("")).args[1]

(***************************************************************************)
(* C11: the output has one tuple per well-formed row and nothing for a     *)
(* row of another length; an absent entry of a well-formed row is the word *)
(* default; the placeholders are $1..$n in row-major order over the        *)
(* entries of the well-formed rows that carry a value, the k-th one bound  *)
(* to the k-th such value: dropped rows and absent entries take no         *)
(* ordinal.                                                                *)
(***************************************************************************)
C11_RowMajorPlaceholders ==
    (Done /\ self.rows # <<>>) =>
        LET text == RowsText(query.sql)
            slots == SelectSeq(text, LAMBDA t : t = "default" \/ IsPlaceholder(t))
            expected == SelectSeq([j \in 1..Len(Entries) |->
                                     IF ~is_some(Entries[j]) THEN "default"
                                     ELSE IF Bindable(Entries[j])
                                          THEN Placeholder(OrdinalOf(j))
                                          ELSE ""],
                                  LAMBDA t : t # "")
        IN  /\ Len(SelectSeq(text, LAMBDA t : t = "       (")) = Len(WellFormedRows)
            /\ slots = expected
            /\ Len(query.args) = Len(BoundEntries)
            /\ \A k \in 1..Len(BoundEntries) : query.args[k] = InsertBound(BoundEntries[k])

\* a dropped row between well-formed rows with absent and present entries
C11_Witness ==
    /\ Done
    /\ Len(self.rows) = 3
    /\ WellFormed(self.rows[1]) /\ ~WellFormed(self.rows[2]) /\ WellFormed(self.rows[3])
    /\ Len(self.columns) = 2
    /\ self.rows[1] = <<None, Some(String("a"))>>
    /\ self.rows[3] = <<Some(String("a")), None>>
    /\ Len(query.args) = 2

(***************************************************************************)
(* The state right after the loop over the rows has processed the row at   *)
(* position index - 1: InsertedRow is that row, BeforeRow the statement it *)
(* was appended to.                                                        *)
(***************************************************************************)
RECURSIVE InsertAfter(_)
InsertAfter(i) ==
    IF i = 0 THEN insert_header(self, QueryBuilder_new(""))
    ELSE insert_row(self, i - 1, self.rows[i], InsertAfter(i - 1))

JustInserted == pc = "rows" /\ index >= 1
InsertedRow == self.rows[index]
BeforeRow == InsertAfter(index - 1)

HasNullEntry(row) == \E j \in 1..Len(row) : row[j] = Some(Null)

\* the slots of a row from entry j on, joined by ", ": default for an absent
\* entry, null_text for a Null one, the next placeholder after $n for another
RECURSIVE SlotsText(_, _, _, _)
SlotsText(row, j, n, null_text) ==
    IF j > Len(row) THEN <<>>
    ELSE (IF ~is_some(row[j]) THEN <<"default">>
          ELSE IF row[j] = Some(Null) THEN null_text
          ELSE <<Placeholder(n + 1)>>)
         \o (IF j < Len(row) THEN <<", ">> ELSE <<>>)
         \o SlotsText(row, j + 1, IF Bindable(row[j]) THEN n + 1 ELSE n, null_text)

\* the tuple of the row just processed, with null_text in the slot of a Null entry
TupleIs(null_text) ==
    LET n == Len(BeforeRow.args)
        end == IF index < Len(self.rows) THEN "),\n" ELSE ")\n"
    IN  /\ query.sql = BeforeRow.sql \o <<"       (">>
                        \o SlotsText(InsertedRow, 1, n, null_text) \o <<end>>
        /\ Len(query.args) = n + Len(SelectSeq(InsertedRow, Bindable))

(***************************************************************************)
(* C15 as stated: a present entry whose value is Null leaves its slot in   *)
(* the tuple empty: no text, no placeholder and no bound value, as the     *)
(* shared value binder does for Null.                                      *)
(***************************************************************************)
C15_NullSlotEmptyOriginal ==
    (JustInserted /\ WellFormed(InsertedRow) /\ HasNullEntry(InsertedRow)) =>
        TupleIs(<<>>)

(***************************************************************************)
(* C15 amended: a present entry whose value is Null renders the word null  *)
(* in its slot and takes no placeholder and no bound value; the slot is    *)
(* not left empty as the shared value binder would leave it.               *)
(***************************************************************************)
C15_NullSlotLiteral ==
    (JustInserted /\ WellFormed(InsertedRow) /\ HasNullEntry(InsertedRow)) =>
        /\ TupleIs(<<"null">>)
        /\ push_sqlvalue(Null, BeforeRow) = BeforeRow

\* a Null entry before a bound one, after a row that has bound a value
C15_Witness ==
    /\ JustInserted
    /\ index = 2
    /\ InsertedRow = <<Some(Null), Some(String("b"))>>
    /\ Len(BeforeRow.args) >= 1
    /\ Len(query.args) = Len(BeforeRow.args) + 1

(***************************************************************************)
(* The text of a statement as one string, and the tuples of the text that  *)
(* follows the header.                                                     *)
(***************************************************************************)
RECURSIVE Text(_)
Text(sql) == IF sql = <<>> THEN "" ELSE Head(sql) \o Text(Tail(sql))

RECURSIVE Joined(_, _)
Joined(names, sep) ==
    IF names = <<>> THEN ""
    ELSE IF Len(names) = 1 THEN names[1]
    ELSE names[1] \o sep \o Joined(Tail(names), sep)

HeaderText == "INSERT INTO " \o self.table \o "(" \o Joined(self.columns, ", ") \o ")\nVALUES\n"

IsTupleEnd(t) == t \in {"),\n", ")\n"}

\* the number of slots of the tuple that opens at position k of the text
SlotsOfTuple(text, k) ==
    LET e == CHOOSE i \in (k + 1)..Len(text) :
                 IsTupleEnd(text[i]) /\ \A j \in (k + 1)..(i - 1) : ~IsTupleEnd(text[j])
    IN  Len(SelectSeq(SubSeq(text, k + 1, e - 1), LAMBDA t : t # ", "))

(***************************************************************************)
(* C16: whenever build returns a text that is not empty, the text is       *)
(* INSERT INTO <table>(<columns joined by ", ">), a line break, VALUES, a  *)
(* line break and then at least one row tuple, each tuple with as many     *)
(* slots as there are columns; so for every row matrix that is not empty,  *)
(* one of rows of a wrong length only and an empty column list included.   *)
(***************************************************************************)
C16_InsertForm ==
    (Done /\ query.sql # <<>>) =>
        \E h \in 0..Len(query.sql) :
            LET rest == SubSeq(query.sql, h + 1, Len(query.sql))
            IN  /\ Text(SubSeq(query.sql, 1, h)) = HeaderText
                /\ \E k \in 1..Len(rest) : rest[k] = "       ("
                /\ \A k \in 1..Len(rest) :
                      rest[k] = "       (" => SlotsOfTuple(rest, k) = Len(self.columns)

(***************************************************************************)
(* C17: with an empty row matrix build returns an empty text and an empty  *)
(* list of bound values, for every table, column list and last_part: no    *)
(* header, and last_part is not appended.                                  *)
(***************************************************************************)
C17_EmptyRowsEmptyOutput ==
    (Done /\ self.rows = <<>>) => (query.sql = <<>> /\ query.args = <<>>)

\* no rows, but columns and a last_part that were not written
C17_Witness ==
    /\ Done
    /\ self.rows = <<>>
    /\ self.columns # <<>>
    /\ is_some(self.last_part)
    /\ query = QueryBuilder_new("")

(***************************************************************************)
(* UpdateBuilder::build and UpdateBuilder::build_all, one step at a time.  *)
(* build_all runs build (pc "all_build", "all_columns") and then the       *)
(* ConditionBuilder over the statement it returned.                        *)
(***************************************************************************)
InitUpdate ==
    /\ self \in UpdateBuilders
    /\ query = QueryBuilder_new("")
    /\ index = 0
    /\ pc \in {"build", "all_build"}

\* build with an empty column list returns the new buffer
UpdateReturnEmpty ==
    /\ pc \in {"build", "all_build"}
    /\ self.columns = <<>>
    /\ query' = QueryBuilder_new("")
    /\ pc' = IF pc = "build" THEN "done" ELSE "all_built"
    /\ UNCHANGED <<self, index>>

UpdateHead ==
    /\ pc \in {"build", "all_build"}
    /\ self.columns # <<>>
    /\ query' = update_head(self, QueryBuilder_new(""))
    /\ index' = 0
    /\ pc' = IF pc = "build" THEN "columns" ELSE "all_columns"
    /\ UNCHANGED self

UpdateColumn ==
    /\ pc \in {"columns", "all_columns"}
    /\ index < Len(self.columns)
    /\ query' = update_column(self, index, self.columns[index + 1], query)
    /\ index' = index + 1
    /\ UNCHANGED <<self, pc>>

\* the loop over the columns is over: build returns
UpdateReturn ==
    /\ pc \in {"columns", "all_columns"}
    /\ index >= Len(self.columns)
    /\ pc' = IF pc = "columns" THEN "done" ELSE "all_built"
    /\ UNCHANGED <<self, query, index>>

\* build_all: ConditionBuilder::new(BaseQuery::QueryBuilder(query), ...).build()
UpdateConditions ==
    /\ pc = "all_built"
    /\ query' = ConditionBuilder_build(build_all_conditions(self, query))
    /\ pc' = "all_done"
    /\ UNCHANGED <<self, index>>

NextUpdate ==
    \/ UpdateReturnEmpty
    \/ UpdateHead
    \/ UpdateColumn
    \/ UpdateReturn
    \/ UpdateConditions

SpecUpdate == InitUpdate /\ [][NextUpdate]_vars

\* build has returned / build_all has returned
BuildDone == pc = "done"
BuildAllDone == pc = "all_done"

(***************************************************************************)
(* C12: with an empty column list the output text of build and of          *)
(* build_all is empty, whatever the predicate list and the end text hold.  *)
(***************************************************************************)
C12_EmptyColumnsEmptyText ==
    ((BuildDone \/ BuildAllDone) /\ self.columns = <<>>) => query.sql = <<>>

(***************************************************************************)
(* C13: the output of build_all begins with the output of build, text and  *)
(* bound values unchanged; the first placeholder after it is $(n+1) for n  *)
(* column assignments; with no predicate and no end text the two texts     *)
(* are equal.                                                              *)
(***************************************************************************)
C13_BuildAllExtendsBuild ==
    BuildAllDone =>
        LET built == UpdateBuilder_build(self)
            rest == SubSeq(query.sql, Len(built.sql) + 1, Len(query.sql))
            ph == SelectSeq(rest, LAMBDA t : \E k \in 1..Len(query.sql) : t = Placeholder(k))
        IN  /\ IsPrefix(built.sql, query.sql)
            /\ IsPrefix(built.args, query.args)
            /\ Len(built.args) = Len(self.columns)
            /\ ph # <<>> => ph[1] = Placeholder(Len(self.columns) + 1)
            /\ (self.conditions = <<>> /\ ~is_some(self.end)) => query.sql = built.sql

\* two assignments, then a predicate that binds $3
C13_Witness ==
    /\ BuildAllDone
    /\ Len(self.columns) = 2
    /\ Len(self.conditions) = 2
    /\ Len(query.args) = 4
    /\ \E k \in 1..(Len(query.sql) - 6) :
          query.sql[k] = "\nWHERE" /\ query.sql[k + 6] = Placeholder(3)

(***************************************************************************)
(* C14: for n >= 1 column assignments build gives UPDATE <table>, then one *)
(* line per assignment in list order, "SET <col> = $1" first and           *)
(* "<col> = $i" after it, a comma after every line but the last: one       *)
(* placeholder and one bound value per assignment, $1..$n, for every       *)
(* variant of the value, a Null primitive included.                        *)
(***************************************************************************)
RECURSIVE AssignmentLines(_, _)
AssignmentLines(columns, i) ==
    IF i > Len(columns) THEN <<>>
    ELSE <<IF i = 1 THEN "\n    SET " ELSE "\n    ", columns[i][1], " = ", Placeholder(i)>>
         \o (IF i < Len(columns) THEN <<",">> ELSE <<>>)
         \o AssignmentLines(columns, i + 1)

C14_UpdateAssignments ==
    (BuildDone /\ self.columns # <<>>) =>
        /\ query.sql = <<"UPDATE ", self.table>> \o AssignmentLines(self.columns, 1)
        /\ Len(query.args) = Len(self.columns)
        /\ \A i \in 1..Len(self.columns) :
              LET column_type == self.columns[i][2]
              IN  IF column_type.kind = "Primitive"
                  THEN query.args[i] = MkArg("Value", "", 0, <<column_type.value>>)
                  ELSE query.args[i].s = column_type.value.s

\* a Null primitive between two other assignments
C14_Witness ==
    /\ BuildDone
    /\ Len(self.columns) >= 2
    /\ self.columns[1][2] = Primitive(Null)
    /\ self.columns[2][2] = DateTime("2023-01-01T00:00")
    /\ Len(query.args) = Len(self.columns)

(***************************************************************************)
(* Several builds side by side.  A call of build owns its builder and its  *)
(* statement buffer; the calls of different builders take their steps in   *)
(* any order, and build of an UpdateBuilder, which borrows the builder,    *)
(* may be called again after it has returned.  Here self, query, index and *)
(* pc hold one entry per builder; pc[i].calls counts the calls of build.   *)
(***************************************************************************)
\* one step of ConditionBuilder::build on its own buffer
condition_step(b, st) ==
    CASE st.at = "build" ->
            [query |-> build_base(b), index |-> 0, at |-> "conditions"]
      [] st.at = "conditions" ->
            IF st.index < Len(b.conditions)
            THEN [query |-> build_condition(st.index, b.conditions[st.index + 1], st.query),
                  index |-> st.index + 1, at |-> "conditions"]
            ELSE [query |-> build_middle(b, st.query), index |-> st.index, at |-> "limit"]
      [] st.at = "limit" ->
            [query |-> build_limit(b, st.query), index |-> st.index, at |-> "offset"]
      [] st.at = "offset" ->
            [query |-> build_offset(b, st.query), index |-> st.index, at |-> "end"]
      [] st.at = "end" ->
            [query |-> build_end(b, st.query), index |-> st.index, at |-> "done"]

\* one step of InsertBuilder::build on its own buffer
insert_step(b, st) ==
    CASE st.at = "build" ->
            IF b.rows = <<>>
            THEN [query |-> QueryBuilder_new(""), index |-> 0, at |-> "done"]
            ELSE [query |-> insert_header(b, QueryBuilder_new("")), index |-> 0, at |-> "rows"]
      [] st.at = "rows" ->
            IF st.index < Len(b.rows)
            THEN [query |-> insert_row(b, st.index, b.rows[st.index + 1], st.query),
                  index |-> st.index + 1, at |-> "rows"]
            ELSE [query |-> insert_last_part(b, st.query), index |-> st.index, at |-> "done"]

\* update_step that goes on writing into the buffer of the call before
update_step_reuse(b, st) ==
    CASE st.at = "build" ->
            IF b.columns = <<>>
            THEN [query |-> st.query, index |-> 0, at |-> "done"]
            ELSE [query |-> update_head(b, st.query), index |-> 0, at |-> "columns"]
      [] st.at = "columns" ->
            IF st.index < Len(b.columns)
            THEN [query |-> update_column(b, st.index, b.columns[st.index + 1], st.query),
                  index |-> st.index + 1, at |-> "columns"]
            ELSE [query |-> st.query, index |-> st.index, at |-> "done"]

\* one step of UpdateBuilder::build on its own buffer
update_step(b, st) ==
    CASE st.at = "build" ->
            IF b.columns = <<>>
            THEN [query |-> QueryBuilder_new(""), index |-> 0, at |-> "done"]
            ELSE [query |-> update_head(b, QueryBuilder_new("")), index |-> 0, at |-> "columns"]
      [] st.at = "columns" ->
            IF st.index < Len(b.columns)
            THEN [query |-> update_column(b, st.index, b.columns[st.index + 1], st.query),
                  index |-> st.index + 1, at |-> "columns"]
            ELSE [query |-> st.query, index |-> st.index, at |-> "done"]

\* the builders of the builds side by side
SideConditionBuilders ==
    {ConditionBuilder_new(BaseQuery_Sql("SELECT * FROM t"), cs, None, l, None, None) :
        cs \in {<<Condition_new(None, "id", "=", PosInt(5), None)>>,
                 <<Condition_new(None, "id", "BETWEEN", PosInt(5), Some(PosInt(24))),
                   Condition_new(Some("AND"), "col", "IN",
                                 Array(<<String("x"), String("x")>>), None)>>},
        l \in {None, Some(10)}}

SideInsertBuilders ==
    {InsertBuilder_new("t", <<"c1", "c2">>, rows, None) :
        rows \in {<<<<Some(String("a")), None>>>>,
                   <<<<Some(String("a")), Some(String("b"))>>, <<Some(String("a"))>>,
                     <<None, Some(String("b"))>>>>}}

SideUpdateBuilders ==
    {UpdateBuilder_new("t", cols, <<>>, None) :
        cols \in {<<>>,
                   <<Column("c1", Primitive(PosInt(5)))>>,
                   <<Column("c1", Primitive(Null)), Column("c2", Date("2023-01-01"))>>}}

SideBuilders ==
    {[kind |-> "condition", builder |-> b] : b \in SideConditionBuilders}
    \cup {[kind |-> "insert", builder |-> b] : b \in SideInsertBuilders}
    \cup {[kind |-> "update", builder |-> b] : b \in SideUpdateBuilders}

InitBuilds ==
    /\ self \in [1..NumBuilders -> SideBuilders]
    /\ query = [i \in 1..NumBuilders |-> QueryBuilder_new("")]
    /\ index = [i \in 1..NumBuilders |-> 0]
    /\ pc = [i \in 1..NumBuilders |-> [at |-> "build", calls |-> 1]]

\* the position of build i, and the step st of it taken
StateOf(i) == [query |-> query[i], index |-> index[i], at |-> pc[i].at]
Take(i, st) ==
    /\ query' = [query EXCEPT ![i] = st.query]
    /\ index' = [index EXCEPT ![i] = st.index]
    /\ pc' = [pc EXCEPT ![i].at = st.at]
    /\ UNCHANGED self

ConditionBuildStep ==
    \E i \in 1..NumBuilders :
        /\ self[i].kind = "condition"
        /\ pc[i].at # "done"
        /\ Take(i, condition_step(self[i].builder, StateOf(i)))

InsertBuildStep ==
    \E i \in 1..NumBuilders :
        /\ self[i].kind = "insert"
        /\ pc[i].at # "done"
        /\ Take(i, insert_step(self[i].builder, StateOf(i)))

UpdateBuildStep ==
    \E i \in 1..NumBuilders :
        /\ self[i].kind = "update"
        /\ pc[i].at # "done"
        /\ Take(i, update_step(self[i].builder, StateOf(i)))

\* build(&self) of an UpdateBuilder is called again
UpdateBuildAgain ==
    \E i \in 1..NumBuilders :
        /\ self[i].kind = "update"
        /\ pc[i].at = "done"
        /\ pc[i].calls < MaxCalls
        /\ pc' = [pc EXCEPT ![i] = [at |-> "build", calls |-> @.calls + 1]]
        /\ UNCHANGED <<self, query, index>>

NextBuilds ==
    \/ ConditionBuildStep
    \/ InsertBuildStep
    \/ UpdateBuildStep
    \/ UpdateBuildAgain

SpecBuilds == InitBuilds /\ [][NextBuilds]_vars

(***************************************************************************)
(* C20: the ordinals are local to a build.  Every build over raw SQL text  *)
(* or a new buffer returns placeholders $1..$n for its n bound values and  *)
(* the text and values that the builder alone determines, whatever the     *)
(* other builds did before or did in between, and so does each further     *)
(* call of build on the same UpdateBuilder.                                *)
(***************************************************************************)
BuildOf(sb) ==
    CASE sb.kind = "condition" -> ConditionBuilder_build(sb.builder)
      [] sb.kind = "insert" -> InsertBuilder_build(sb.builder)
      [] sb.kind = "update" -> UpdateBuilder_build(sb.builder)

C20_OrdinalsLocal ==
    \A i \in 1..NumBuilders :
        pc[i].at = "done" =>
            LET ph == Placeholders(query[i].sql)
            IN  /\ Len(ph) = Len(query[i].args)
                /\ \A k \in 1..Len(ph) : ph[k] = Placeholder(k)
                /\ query[i] = BuildOf(self[i])

\* a second call of build on an UpdateBuilder has returned its placeholders
\* from $1 while another build, part way, has bound values of its own
C20_Witness ==
    \E i, j \in 1..NumBuilders :
        /\ i # j
        /\ self[i].kind = "update"
        /\ pc[i] = [at |-> "done", calls |-> 2]
        /\ Len(query[i].args) = 2
        /\ pc[j].at \notin {"build", "done"}
        /\ Len(query[j].args) >= 2

(***************************************************************************)
(* An integer is converted into a SqlValue and handed to the value binder. *)
(* Here self is the integer of the caller with its type and, once          *)
(* converted, its SqlValue; query is the buffer the value is bound into.   *)
(***************************************************************************)
InitFrom ==
    /\ self \in {[ty |-> "u64", input |-> n, value |-> None] : n \in 0..U64Max}
              \cup {[ty |-> "i64", input |-> n, value |-> None] :
                        n \in (0 - I64Max - 1)..I64Max}
    /\ query = QueryBuilder_new("")
    /\ index = 0
    /\ pc = "from"

FromU64 ==
    /\ pc = "from"
    /\ self.ty = "u64"
    /\ self' = [self EXCEPT !.value = Some(SqlValue_from_u64(self.input))]
    /\ pc' = "bind"
    /\ UNCHANGED <<query, index>>

FromI64 ==
    /\ pc = "from"
    /\ self.ty = "i64"
    /\ self' = [self EXCEPT !.value = Some(SqlValue_from_i64(self.input))]
    /\ pc' = "bind"
    /\ UNCHANGED <<query, index>>

\* push_sqlvalue of the converted value
BindConverted ==
    /\ pc = "bind"
    /\ query' = push_sqlvalue(unwrap(self.value), query)
    /\ pc' = "done"
    /\ UNCHANGED <<self, index>>

NextFrom ==
    \/ FromU64
    \/ FromI64
    \/ BindConverted

SpecFrom == InitFrom /\ [][NextFrom]_vars

(***************************************************************************)
(* C21: the SqlValue made from an unsigned 64-bit integer is a Number of   *)
(* the same numeric value, for every input, those above 2^63 - 1           *)
(* included: it is never negative and never differs from the input.        *)
(***************************************************************************)
C21_U64ValuePreserved ==
    (self.ty = "u64" /\ is_some(self.value)) =>
        LET v == unwrap(self.value)
        IN  /\ v.tag = "Number"
            /\ v.n >= 0
            /\ v.n = self.input

====
